---- MODULE Spec2Model ----
(***************************************************************************)
(* Model of skills/ian-gemini-web/scripts/watermark-remover.ts: the PNG    *)
(* codec (decodePNG, encodePNG, crc32), the watermark geometry             *)
(* (detectWatermarkConfig, calculateWatermarkPosition, hasWatermarkArea),  *)
(* the process-wide alpha-mask cache (getAlphaMap) and the inversion       *)
(* (applyReverseAlphaBlending, removeWatermark).                           *)
(*                                                                         *)
(* Byte buffers (Uint8Array) are sequences over 0..255; the code's         *)
(* 0-based index i is element i+1.  A read outside a typed array gives     *)
(* JavaScript's undefined, modelled by Undef.                              *)
(***************************************************************************)
EXTENDS Integers, Sequences, FiniteSets, TLC

VARIABLES
    \* codec run (decodePNG / encodePNG called directly)
    buffer,      \* the byte buffer handed to decodePNG
    origin,      \* how that buffer was built (ghost)
    cpc,         \* "input" | "decoded"
    dec,         \* what decodePNG did with buffer
    \* geometry run
    dimW, dimH,  \* image dimensions under test
    gpc,         \* "input" | "evaluated"
    geo,         \* results of the three geometry functions
    \* inversion run (the blending step on a decoded image)
    img,         \* [width, height, data] before the step
    mask,        \* the alpha map used
    bpc,         \* "input" | "blended"
    out,         \* data after applyReverseAlphaBlending
    \* removeWatermark / getAlphaMap run with concurrent invocations
    alphaMapCache, \* size -> alpha map (the Map of line 28), domain = keys set
    wk,            \* per invocation: its position and locals
    reads,         \* size -> number of completed reads of the bundled asset
    sets           \* size -> number of alphaMapCache.set calls

vars == <<buffer, origin, cpc, dec, dimW, dimH, gpc, geo, img, mask, bpc, out,
          alphaMapCache, wk, reads, sets>>

----------------------------------------------------------------------------
(* Bytes and typed-array reads                                             *)

Undef == -1

Byte == 0..255

\* buffer[i] of a Uint8Array: undefined outside 0..length-1
At(buf, i) == IF i >= 0 /\ i < Len(buf) THEN buf[i + 1] ELSE Undef

\* buffer.slice(from, to): both ends clamped to the buffer
Slice(buf, from, to) ==
    LET lo == IF from < 0 THEN 0 ELSE IF from > Len(buf) THEN Len(buf) ELSE from
        hi == IF to < 0 THEN 0 ELSE IF to > Len(buf) THEN Len(buf) ELSE to
    IN  IF hi <= lo THEN << >> ELSE SubSeq(buf, lo + 1, hi)

\* a store into a Uint8Array: undefined and NaN are stored as 0
ToU8(v) == IF v = Undef THEN 0 ELSE v % 256

\* DataView.setUint32(_, n): four bytes, big-endian
U32Bytes(n) ==
    << (n \div 16777216) % 256, (n \div 65536) % 256, (n \div 256) % 256, n % 256 >>

\* DataView.getUint32(off) where the four bytes exist.  Exact below 2^30;
\* a larger value is carried as 2^30, which like it lies beyond the end of
\* every buffer here (the value is used as a length or an offset only).
U32At(buf, off) ==
    IF buf[off + 1] >= 64 THEN 1073741824
    ELSE ((buf[off + 1] * 256 + buf[off + 2]) * 256 + buf[off + 3]) * 256 + buf[off + 4]

\* The loops below are folds whose state is computed before the next
\* iteration starts, as in the code: Strict(v) has v evaluated.
Strict(v) == v = v

RECURSIVE Concat(_)
Concat(ss) == IF ss = << >> THEN << >> ELSE Head(ss) \o Concat(Tail(ss))

----------------------------------------------------------------------------
(* crc32: 32-bit values are pairs <<high 16 bits, low 16 bits>>            *)

RECURSIVE Xor(_, _)
Xor(a, b) ==
    IF a = 0 THEN b
    ELSE IF b = 0 THEN a
    ELSE ((a + b) % 2) + 2 * Xor(a \div 2, b \div 2)

Xor32(c, d) == << Xor(c[1], d[1]), Xor(c[2], d[2]) >>

Shr1(c) == << c[1] \div 2, (c[1] % 2) * 32768 + (c[2] \div 2) >>

Shr8(c) == << c[1] \div 256, (c[1] % 256) * 256 + (c[2] \div 256) >>

\* c & 1 ? 0xedb88320 ^ (c >>> 1) : c >>> 1
CrcStep(c) ==
    IF c[2] % 2 = 1 THEN Xor32(<<60856, 33568>>, Shr1(c)) ELSE Shr1(c)

crcTable ==
    [n \in 0..255 |->
        CrcStep(CrcStep(CrcStep(CrcStep(CrcStep(CrcStep(CrcStep(CrcStep(<<0, n>>))))))))]

\* line 276, for data[i]
CrcByte(crc, byte) == Xor32(crcTable[Xor(crc[2] % 256, byte)], Shr8(crc))

\* lines 275-277: the loop over data[lo..hi] in index order, split in halves
RECURSIVE CrcLoop(_, _, _, _)
CrcLoop(data, lo, hi, crc) ==
    IF lo > hi THEN crc
    ELSE IF lo = hi THEN CrcByte(crc, data[lo])
    ELSE LET mid  == (lo + hi) \div 2
             left == CrcLoop(data, lo, mid, crc)
         IN  IF Strict(left) THEN CrcLoop(data, mid + 1, hi, left) ELSE left

\* lines 273-279
crc32(data) ==
    Xor32(CrcLoop(data, 1, Len(data), <<65535, 65535>>), <<65535, 65535>>)

\* setUint32 of a crc32 value
CrcBytes(c) == << c[1] \div 256, c[1] % 256, c[2] \div 256, c[2] % 256 >>

----------------------------------------------------------------------------
(* The compression transform (Bun.deflateSync / Bun.inflateSync), an        *)
(* external collaborator known by its contract only: inflate inverts        *)
(* deflate and rejects a byte stream that deflate cannot have produced.     *)
(* The model stream is a header byte, the complemented payload, and the     *)
(* payload length mod 256 as a trailer, so that it is not the identity.     *)

Deflate(raw) ==
    <<120>> \o [i \in 1..Len(raw) |-> 255 - raw[i]] \o <<Len(raw) % 256>>

Inflate(c) ==
    IF Len(c) >= 2 /\ c[1] = 120 /\ c[Len(c)] = (Len(c) - 2) % 256
    THEN [ok |-> TRUE,  bytes |-> [i \in 1..(Len(c) - 2) |-> 255 - c[i + 1]]]
    ELSE [ok |-> FALSE, bytes |-> << >>]

----------------------------------------------------------------------------
(* decodePNG                                                               *)

PNG_SIGNATURE == <<137, 80, 78, 71, 13, 10, 26, 10>>
TYPE_IHDR == <<73, 72, 68, 82>>
TYPE_IDAT == <<73, 68, 65, 84>>
TYPE_IEND == <<73, 69, 78, 68>>

\* the check with its second word left out (the variant C2 must reject)
SignatureCheckFirstWord(buf) ==
    IF Len(buf) < 4 THEN "RangeError"
    ELSE IF SubSeq(buf, 1, 4) # SubSeq(PNG_SIGNATURE, 1, 4) THEN "Invalid PNG signature"
    ELSE "none"

\* lines 63-65: "none" when the signature is accepted, else the error thrown.
\* getUint32(0) and getUint32(4) throw a RangeError on a buffer too short;
\* the second is evaluated only when the first word matches (||).
SignatureCheck(buf) ==
    IF Len(buf) < 4 THEN "RangeError"
    ELSE IF SubSeq(buf, 1, 4) # SubSeq(PNG_SIGNATURE, 1, 4) THEN "Invalid PNG signature"
    ELSE IF Len(buf) < 8 THEN "RangeError"
    ELSE IF SubSeq(buf, 5, 8) # SubSeq(PNG_SIGNATURE, 5, 8) THEN "Invalid PNG signature"
    ELSE "none"

\* String.fromCharCode(buffer[offset+4..offset+7]): undefined gives char 0
TypeAt(buf, offset) ==
    [k \in 1..4 |-> LET b == At(buf, offset + 3 + k) IN IF b = Undef THEN 0 ELSE b]

WalkStart ==
    [error |-> "none", width |-> 0, height |-> 0, bitDepth |-> 0, colorType |-> 0,
     idatChunks |-> << >>, visited |-> << >>, sawIEND |-> FALSE]

\* an advance that forgets the 4 CRC bytes (the variant C10 must reject)
NextOffsetNoCrc(offset, length) == offset + 8 + length

\* line 94: offset += 12 + length
NextOffset(offset, length) == offset + 12 + length

\* lines 74-95: the chunk walk from `offset`; visited lists the offsets at
\* which a chunk header was read.
RECURSIVE WalkChunks(_, _, _)
WalkChunks(buf, offset, st) ==
    IF ~(offset < Len(buf)) THEN st
    ELSE LET st1 == [st EXCEPT !.visited = Append(@, offset)] IN
         IF offset + 4 > Len(buf) THEN [st1 EXCEPT !.error = "RangeError"]
         ELSE LET length == U32At(buf, offset)
                  type   == TypeAt(buf, offset)
              IN  IF type = TYPE_IHDR THEN
                      IF offset + 16 > Len(buf) THEN [st1 EXCEPT !.error = "RangeError"]
                      ELSE WalkChunks(buf, NextOffset(offset, length),
                               [st1 EXCEPT !.width     = U32At(buf, offset + 8),
                                           !.height    = U32At(buf, offset + 12),
                                           !.bitDepth  = At(buf, offset + 16),
                                           !.colorType = At(buf, offset + 17)])
                  ELSE IF type = TYPE_IDAT THEN
                      WalkChunks(buf, NextOffset(offset, length),
                          [st1 EXCEPT !.idatChunks =
                               Append(@, Slice(buf, offset + 8, offset + 8 + length))])
                  ELSE IF type = TYPE_IEND THEN [st1 EXCEPT !.sawIEND = TRUE]
                  ELSE WalkChunks(buf, NextOffset(offset, length), st1)

\* line 106
Channels(colorType) ==
    IF colorType = 6 THEN 4 ELSE IF colorType = 2 THEN 3 ELSE IF colorType = 4 THEN 2 ELSE 1

\* line 107: (bitDepth / 8) * channels; an undefined bitDepth gives NaN
\* (Undef).  Exact for the bit depths the inputs use: 0 (no IHDR), 8, 16.
BytesPerPixel(bitDepth, channels) ==
    IF bitDepth = Undef THEN Undef ELSE (bitDepth \div 8) * channels

\* Paeth with ties broken toward up-left first (the variant C9 must reject)
PaethPickUpLeftFirst(left, up, upLeft) ==
    LET p  == left + up - upLeft
        pa == IF p - left   < 0 THEN left - p   ELSE p - left
        pb == IF p - up     < 0 THEN up - p     ELSE p - up
        pc == IF p - upLeft < 0 THEN upLeft - p ELSE p - upLeft
    IN  IF pc <= pa /\ pc <= pb THEN upLeft ELSE IF pb <= pa THEN up ELSE left

\* lines 145-166; current may be undefined, and undefined + n is NaN,
\* NaN & 0xff is 0.
PaethPick(left, up, upLeft) ==
    LET p  == left + up - upLeft
        pa == IF p - left   < 0 THEN left - p   ELSE p - left
        pb == IF p - up     < 0 THEN up - p     ELSE p - up
        pc == IF p - upLeft < 0 THEN upLeft - p ELSE p - upLeft
    IN  IF pa <= pb /\ pa <= pc THEN left ELSE IF pb <= pc THEN up ELSE upLeft

applyFilter(filterType, current, left, up, upLeft) ==
    LET add(pr) == IF current = Undef THEN 0 ELSE (current + pr) % 256
    IN  IF filterType = 0 THEN current
        ELSE IF filterType = 1 THEN add(left)
        ELSE IF filterType = 2 THEN add(up)
        ELSE IF filterType = 3 THEN add((left + up) \div 2)
        ELSE IF filterType = 4 THEN add(PaethPick(left, up, upLeft))
        ELSE current

\* lines 120-198 for one pixel: the four bytes stored at dstIdx..dstIdx+3.
\* row holds the bytes of this scanline written so far, prevRow those of the
\* scanline above (both parts of `data`).
DecodePixel(scanline, filterType, bpp, channels, x, y, row, prevRow) ==
    LET srcIdx == IF bpp = Undef THEN Undef ELSE x * bpp
        sc(k)  == IF srcIdx = Undef THEN Undef ELSE At(scanline, srcIdx + k)
        r == sc(0)
        g == IF channels >= 3 THEN sc(1) ELSE sc(0)
        b == IF channels >= 3 THEN sc(2) ELSE sc(0)
        a == IF channels = 4 THEN sc(3) ELSE IF channels = 2 THEN sc(1) ELSE 255
        left(c)   == IF x > 0 THEN row[(x - 1) * 4 + c + 1] ELSE 0
        up(c)     == IF y > 0 THEN prevRow[x * 4 + c + 1] ELSE 0
        upLeft(c) == IF x > 0 /\ y > 0 THEN prevRow[(x - 1) * 4 + c + 1] ELSE 0
        f(cur, c) == ToU8(applyFilter(filterType, cur, left(c), up(c), upLeft(c)))
    IN  << f(r, 0), f(g, 1), f(b, 2),
           IF channels = 4 \/ channels = 2 THEN f(a, 3) ELSE 255 >>

\* the loop of line 120 over x in lo..hi, in order, split in halves; row is
\* the part of this scanline's output written so far
RECURSIVE DecodeRow(_, _, _, _, _, _, _, _, _)
DecodeRow(scanline, filterType, bpp, channels, lo, hi, y, row, prevRow) ==
    IF lo > hi THEN row
    ELSE IF lo = hi
         THEN row \o DecodePixel(scanline, filterType, bpp, channels, lo, y, row, prevRow)
    ELSE LET mid  == (lo + hi) \div 2
             left == DecodeRow(scanline, filterType, bpp, channels, lo, mid, y,
                               row, prevRow)
         IN  IF Strict(left)
             THEN DecodeRow(scanline, filterType, bpp, channels, mid + 1, hi, y,
                            left, prevRow)
             ELSE left

\* lines 113-119 and the loop of line 120 for scanline y: acc is
\* <<data written so far, the scanline above>>
DecodeScanline(decompressed, width, bpp, channels, y, acc) ==
    LET scanlineLength == IF bpp = Undef THEN Undef ELSE width * bpp + 1
        scanlineOffset == IF bpp = Undef THEN Undef ELSE y * scanlineLength
        filterType == IF bpp = Undef THEN Undef ELSE At(decompressed, scanlineOffset)
        scanline   == IF bpp = Undef THEN << >>
                      ELSE Slice(decompressed, scanlineOffset + 1,
                                 scanlineOffset + 1 + width * bpp)
        row == DecodeRow(scanline, filterType, bpp, channels, 0, width - 1, y,
                         << >>, acc[2])
    IN  << acc[1] \o row, row >>

\* the loop of line 112 over y in lo..hi, in order, split in halves
RECURSIVE DecodeRows(_, _, _, _, _, _, _)
DecodeRows(decompressed, width, bpp, channels, lo, hi, acc) ==
    IF lo > hi THEN acc
    ELSE IF lo = hi THEN DecodeScanline(decompressed, width, bpp, channels, lo, acc)
    ELSE LET mid  == (lo + hi) \div 2
             left == DecodeRows(decompressed, width, bpp, channels, lo, mid, acc)
         IN  IF Strict(left)
             THEN DecodeRows(decompressed, width, bpp, channels, mid + 1, hi, left)
             ELSE left

DecodeFail(err, walk, called, compressed) ==
    [status |-> "error", error |-> err, visited |-> walk.visited,
     sawIEND |-> walk.sawIEND, inflateCalled |-> called,
     compressedData |-> compressed, width |-> 0, height |-> 0, data |-> << >>]

\* lines 60-202
decodePNG(buf) ==
    IF SignatureCheck(buf) # "none"
    THEN DecodeFail(SignatureCheck(buf), WalkStart, FALSE, << >>)
    ELSE LET walk == WalkChunks(buf, 8, WalkStart) IN
         IF walk.error # "none" THEN DecodeFail(walk.error, walk, FALSE, << >>)
         ELSE LET compressedData == Concat(walk.idatChunks)
                  inflated == Inflate(compressedData)
              IN  IF ~inflated.ok
                  THEN DecodeFail("inflate", walk, TRUE, compressedData)
                  ELSE LET channels == Channels(walk.colorType)
                           bpp == BytesPerPixel(walk.bitDepth, channels)
                       IN  [status |-> "ok", error |-> "none",
                            visited |-> walk.visited, sawIEND |-> walk.sawIEND,
                            inflateCalled |-> TRUE,
                            compressedData |-> compressedData,
                            width |-> walk.width, height |-> walk.height,
                            data |-> DecodeRows(inflated.bytes, walk.width, bpp,
                                                channels, 0, walk.height - 1,
                                                << << >>, << >> >>)[1]]

----------------------------------------------------------------------------
(* encodePNG                                                               *)

\* scanlines announced as Sub-filtered but holding raw bytes (the variant
\* C8 must reject)
EncodeScanlinesSub(width, height, data) ==
    [k \in 1..(height * (width * 4 + 1)) |->
        LET y   == (k - 1) \div (width * 4 + 1)
            off == (k - 1) % (width * 4 + 1)
        IN  IF off = 0 THEN 1 ELSE ToU8(At(data, y * width * 4 + off - 1))]

\* lines 205-214: per row a filter byte 0, then the row's RGBA bytes
EncodeScanlines(width, height, data) ==
    [k \in 1..(height * (width * 4 + 1)) |->
        LET y   == (k - 1) \div (width * 4 + 1)
            off == (k - 1) % (width * 4 + 1)
        IN  IF off = 0 THEN 0 ELSE ToU8(At(data, y * width * 4 + off - 1))]

\* a chunk as encodePNG lays it out: length, type, data, crc32(type ++ data)
Chunk(type, payload) ==
    U32Bytes(Len(payload)) \o type \o payload \o CrcBytes(crc32(type \o payload))

\* lines 204-259
encodePNG(width, height, data) ==
    LET compressed == Deflate(EncodeScanlines(width, height, data))
    IN  PNG_SIGNATURE
        \o Chunk(TYPE_IHDR, U32Bytes(width) \o U32Bytes(height) \o <<8, 6, 0, 0, 0>>)
        \o Chunk(TYPE_IDAT, compressed)
        \o Chunk(TYPE_IEND, << >>)

----------------------------------------------------------------------------
(* Codec run: the buffers handed to decodePNG                              *)

MaxChunks == 4      \* chunks after the signature
MaxCut    == 11     \* bytes cut from the end of the buffer
MaxW      == 2      \* image width of the encoded and filtered inputs
MaxH      == 2      \* image height of the encoded and filtered inputs
MaxSeed   == 3      \* pixel patterns per image size

\* pixel patterns: bytes that vary along a row and between rows
Pattern(seed, n) ==
    [i \in 1..n |->
        (seed * 37 + (i % 251) * (i % 251) * (seed + 3) + i * 101 + (i \div 3) * 64) % 256]

\* pixels for which the Paeth distances tie: at pixel (1,1) of a 2x2 image
\* left and up-left tie in R, up and up-left in G, left and up in B
TieBytes == <<2, 2, 5, 255,  3, 0, 7, 255,  0, 3, 7, 255,  90, 160, 200, 255>>

TiePattern(n) == [i \in 1..n |-> TieBytes[((i - 1) % 16) + 1]]

PixelBuffers(width, height) ==
    {Pattern(seed, width * height * 4) : seed \in 0..MaxSeed}
        \cup {[i \in 1..(width * height * 4) |-> v] : v \in {0, 255}}
        \cup {TiePattern(width * height * 4)}

BaseW == 2
BaseH == 1
BaseData == Pattern(1, BaseW * BaseH * 4)
BaseStream == Deflate(EncodeScanlines(BaseW, BaseH, BaseData))
BaseSplit == Len(BaseStream) \div 2

IHDRData(width, height, bitDepth, colorType) ==
    U32Bytes(width) \o U32Bytes(height) \o <<bitDepth, colorType, 0, 0, 0>>

ChunkKinds == {"IHDR", "IDAT1", "IDAT2", "IEND", "tEXt"}

ChunkType(kind) ==
    CASE kind = "IHDR" -> TYPE_IHDR
      [] kind \in {"IDAT1", "IDAT2"} -> TYPE_IDAT
      [] kind = "IEND" -> TYPE_IEND
      [] OTHER -> <<116, 69, 88, 116>>

ChunkData(kind) ==
    CASE kind = "IHDR"  -> IHDRData(BaseW, BaseH, 8, 6)
      [] kind = "IDAT1" -> SubSeq(BaseStream, 1, BaseSplit)
      [] kind = "IDAT2" -> SubSeq(BaseStream, BaseSplit + 1, Len(BaseStream))
      [] kind = "IEND"  -> << >>
      [] OTHER          -> <<73, 68, 65, 84, 0>>

ChunkOf == [kind \in ChunkKinds |-> Chunk(ChunkType(kind), ChunkData(kind))]

ChunkSeqs == UNION {[1..k -> ChunkKinds] : k \in 0..MaxChunks}

ChunksBytes(chunks) == Concat([k \in 1..Len(chunks) |-> ChunkOf[chunks[k]]])

Origin(kind, width, height, data, chunks, cut, filters) ==
    [kind |-> kind, width |-> width, height |-> height, data |-> data,
     chunks |-> chunks, cut |-> cut, filters |-> filters]

\* a signature followed by whole chunks, the last `cut` bytes missing
ChunkInput(cs, cut) ==
    [buffer |-> LET all == PNG_SIGNATURE \o ChunksBytes(cs)
                IN  SubSeq(all, 1, Len(all) - cut),
     origin |-> Origin("chunks", 0, 0, << >>, cs, cut, << >>)]

WholePNG == PNG_SIGNATURE \o ChunksBytes(<<"IHDR", "IDAT1", "IDAT2", "IEND">>)

\* buffers whose first 8 bytes are not the signature: one signature byte
\* changed, or fewer than 8 bytes
BadSignatureInputs ==
    {[buffer |-> [WholePNG EXCEPT ![k] = (@ + d) % 256],
      origin |-> Origin("badsig", 0, 0, << >>, << >>, 0, << >>)] :
        k \in 1..8, d \in {1, 128}}
    \cup
    {[buffer |-> SubSeq(WholePNG, 1, n),
      origin |-> Origin("badsig", 0, 0, << >>, << >>, 0, << >>)] : n \in 0..7}

\* the output of encodePNG on an RGBA pixel buffer
EncodedInput(w, h, d) ==
    [buffer |-> encodePNG(w, h, d),
     origin |-> Origin("encoded", w, h, d, << >>, 0, << >>)]

----------------------------------------------------------------------------
(* The standard forward filter of the PNG specification (what an encoder    *)
(* other than encodePNG does): byte i of scanline y minus its predictor,    *)
(* taken from the unfiltered bytes 4 to the left, above, and above-left.    *)

StdPaeth(a, b, c) ==
    LET p  == a + b - c
        da == IF p >= a THEN p - a ELSE a - p
        db == IF p >= b THEN p - b ELSE b - p
        dc == IF p >= c THEN p - c ELSE c - p
    IN  IF da <= db /\ da <= dc THEN a ELSE IF db <= dc THEN b ELSE c

StdFilterByte(data, width, y, i, ft) ==
    LET raw(yy, ii) == IF yy < 0 \/ ii < 4 THEN 0 ELSE data[yy * width * 4 + ii - 4 + 1]
        x == raw(y, i + 4)
        a == raw(y, i)
        b == raw(y - 1, i + 4)
        c == raw(y - 1, i)
        pred == CASE ft = 0 -> 0
                  [] ft = 1 -> a
                  [] ft = 2 -> b
                  [] ft = 3 -> (a + b) \div 2
                  [] ft = 4 -> StdPaeth(a, b, c)
    IN  (x - pred) % 256

StdFilter(data, width, height, filters) ==
    Concat([y \in 1..height |->
               <<filters[y]>> \o [i \in 1..(width * 4) |->
                                     StdFilterByte(data, width, y - 1, i - 1, filters[y])]])

\* an 8-bit RGBA PNG file whose scanline y was filtered with type fs[y]
FilteredInput(w, h, d, fs) ==
    [buffer |-> PNG_SIGNATURE
                \o Chunk(TYPE_IHDR, IHDRData(w, h, 8, 6))
                \o Chunk(TYPE_IDAT, Deflate(StdFilter(d, w, h, fs)))
                \o Chunk(TYPE_IEND, << >>),
     origin |-> Origin("filtered", w, h, d, << >>, 0, fs)]

NotDecoded ==
    [status |-> "none", error |-> "none", visited |-> << >>, sawIEND |-> FALSE,
     inflateCalled |-> FALSE, compressedData |-> << >>, width |-> 0, height |-> 0,
     data |-> << >>]

----------------------------------------------------------------------------
(* Watermark geometry                                                      *)

SIZE_LIMIT == 1024

\* the tiers with >= in place of > (the variant C6 must reject)
detectWatermarkConfigInclusive(imageWidth, imageHeight) ==
    IF imageWidth >= SIZE_LIMIT /\ imageHeight >= SIZE_LIMIT
    THEN [logoSize |-> 96, marginRight |-> 64, marginBottom |-> 64]
    ELSE [logoSize |-> 48, marginRight |-> 32, marginBottom |-> 32]

\* lines 30-35
detectWatermarkConfig(imageWidth, imageHeight) ==
    IF imageWidth > SIZE_LIMIT /\ imageHeight > SIZE_LIMIT
    THEN [logoSize |-> 96, marginRight |-> 64, marginBottom |-> 64]
    ELSE [logoSize |-> 48, marginRight |-> 32, marginBottom |-> 32]

\* lines 37-48
calculateWatermarkPosition(imageWidth, imageHeight, config) ==
    [x |-> imageWidth - config.marginRight - config.logoSize,
     y |-> imageHeight - config.marginBottom - config.logoSize,
     width |-> config.logoSize,
     height |-> config.logoSize]

\* the predicate with > in place of >= (the variant C7 must reject)
hasWatermarkAreaStrict(width, height) ==
    LET config == detectWatermarkConfig(width, height)
        minWidth == config.logoSize + config.marginRight
        minHeight == config.logoSize + config.marginBottom
    IN  width > minWidth /\ height > minHeight

\* lines 334-339
hasWatermarkArea(width, height) ==
    LET config == detectWatermarkConfig(width, height)
        minWidth == config.logoSize + config.marginRight
        minHeight == config.logoSize + config.marginBottom
    IN  width >= minWidth /\ height >= minHeight

----------------------------------------------------------------------------
(* Alpha map and inversion.  An alpha value max/255 (a Float32) is carried  *)
(* as its numerator max in 0..255; Undef stands for NaN.                    *)

ALPHA_THRESHOLD_PER_MILLE == 2
MAX_ALPHA_PERCENT == 99
LOGO_VALUE == 255

Max3(a, b, c) ==
    IF a = Undef \/ b = Undef \/ c = Undef THEN Undef
    ELSE IF a >= b /\ a >= c THEN a ELSE IF b >= c THEN b ELSE c

\* lines 50-58
calculateAlphaMap(imageData, width, height) ==
    [i \in 1..(width * height) |->
        Max3(At(imageData, (i - 1) * 4), At(imageData, (i - 1) * 4 + 1),
             At(imageData, (i - 1) * 4 + 2))]

\* alpha < ALPHA_THRESHOLD (line 308); false for NaN
BelowThreshold(alpha) ==
    alpha # Undef /\ alpha * 1000 < ALPHA_THRESHOLD_PER_MILLE * 255

\* lines 310-316 for one channel: Math.max(0, Math.min(255, Math.round(
\* (watermarked - alpha * 255) / (1 - alpha)))) with alpha = min(max/255, 0.99).
\* The quotient is n/d exactly; Math.round of the computed double is the
\* nearest integer to n/d, and where n/d lies exactly between two integers the
\* Float32 value of max/255 puts the double below the half, so the lower one.
\* NaN (Undef) results from an undefined operand.
Invert(watermarked, alpha) ==
    IF watermarked = Undef \/ alpha = Undef THEN Undef
    ELSE LET clamped == alpha * 100 > MAX_ALPHA_PERCENT * 255
             n == IF clamped
                  THEN 100 * watermarked - MAX_ALPHA_PERCENT * LOGO_VALUE
                  ELSE 255 * watermarked - alpha * LOGO_VALUE
             d == IF clamped THEN 100 - MAX_ALPHA_PERCENT ELSE 255 - alpha
             rounded == 0 - ((d - 2 * n) \div (2 * d))
         IN  IF rounded < 0 THEN 0 ELSE IF rounded > 255 THEN 255 ELSE rounded

\* imageData[idx] = v: ignored outside the array
Store(imageData, idx, v) ==
    IF idx >= 0 /\ idx < Len(imageData)
    THEN [imageData EXCEPT ![idx + 1] = ToU8(v)]
    ELSE imageData

\* lines 304-317: the body of the inner loop for one (row, col)
BlendPixel(imageData, imageWidth, alphaMap, position, row, col) ==
    LET imgIdx == ((position.y + row) * imageWidth + (position.x + col)) * 4
        alpha  == At(alphaMap, row * position.width + col)
        ch(c)  == Invert(At(imageData, imgIdx + c), alpha)
    IN  IF BelowThreshold(alpha) THEN imageData
        ELSE Store(Store(Store(imageData, imgIdx, ch(0)), imgIdx + 1, ch(1)),
                   imgIdx + 2, ch(2))

\* lines 302-303: the two loops visit k = row * width + col for k in lo..hi
\* in increasing order; split in halves
RECURSIVE BlendLoop(_, _, _, _, _, _)
BlendLoop(imageData, imageWidth, alphaMap, position, lo, hi) ==
    IF lo > hi THEN imageData
    ELSE IF lo = hi
         THEN BlendPixel(imageData, imageWidth, alphaMap, position,
                         lo \div position.width, lo % position.width)
    ELSE LET mid  == (lo + hi) \div 2
             left == BlendLoop(imageData, imageWidth, alphaMap, position, lo, mid)
         IN  IF Strict(left)
             THEN BlendLoop(left, imageWidth, alphaMap, position, mid + 1, hi)
             ELSE left

\* lines 294-320: imageData after the call
applyReverseAlphaBlending(imageData, imageWidth, alphaMap, position) ==
    BlendLoop(imageData, imageWidth, alphaMap, position, 0,
              position.width * position.height - 1)

----------------------------------------------------------------------------
(* The bundled reference assets assets/bg_48.png and assets/bg_96.png: a    *)
(* white logo on black, as 8-bit RGBA PNG files.  The files are 48x48 and   *)
(* 96x96 pixels; here each is a file of AssetSide(size) pixels a side,      *)
(* which getAlphaMap reads, decodes and caches in the same way.             *)

AssetShrink == 12

AssetSide(size) == size \div AssetShrink

AssetPixels(side) ==
    [i \in 1..(side * side * 4) |->
        LET p   == (i - 1) \div 4
            row == p \div side
            col == p % side
        IN  IF (i - 1) % 4 = 3 THEN 255
            ELSE IF (row + col) % 4 = 0 THEN 0
            ELSE (row * 50 + col * 30 + side) % 256]

AssetFile48 == encodePNG(AssetSide(48), AssetSide(48), AssetPixels(AssetSide(48)))
AssetFile96 == encodePNG(AssetSide(96), AssetSide(96), AssetPixels(AssetSide(96)))

\* lines 285-286: the bytes readFile resolves with
readFile(size) == IF size = 48 THEN AssetFile48 ELSE AssetFile96

\* lines 287-288 applied to the file's bytes
LoadAlphaMap(fileData) ==
    LET d == decodePNG(fileData)
    IN  [status |-> d.status, error |-> d.error,
         alphaMap |-> IF d.status = "ok"
                      THEN calculateAlphaMap(d.data, d.width, d.height) ELSE << >>]

----------------------------------------------------------------------------
(* Idle values of the four runs                                            *)

NumWorkers == 2     \* concurrent invocations

\* invocations, numbered in the order in which they are called
Workers == 1..NumWorkers

IdleWorker ==
    [pc |-> "idle", call |-> "none", input |-> << >>, walked |-> 0,
     width |-> 0, height |-> 0, data |-> << >>, size |-> 0,
     position |-> [x |-> 0, y |-> 0, width |-> 0, height |-> 0],
     alphaMap |-> << >>, output |-> << >>, error |-> "none",
     myReads |-> 0, mySets |-> 0]

CodecIdle ==
    /\ buffer = << >> /\ origin = Origin("none", 0, 0, << >>, << >>, 0, << >>)
    /\ cpc = "off" /\ dec = NotDecoded

GeomIdle == dimW = 0 /\ dimH = 0 /\ gpc = "off" /\ geo = [has |-> FALSE]

BlendIdle ==
    /\ img = [width |-> 0, height |-> 0, data |-> << >>]
    /\ mask = << >> /\ bpc = "off" /\ out = << >>

PipeIdle ==
    /\ alphaMapCache = << >>
    /\ wk = [w \in Workers |-> IdleWorker]
    /\ reads = [s \in {48, 96} |-> 0]
    /\ sets = [s \in {48, 96} |-> 0]

codecVars == <<buffer, origin, cpc, dec>>
geomVars  == <<dimW, dimH, gpc, geo>>
blendVars == <<img, mask, bpc, out>>
pipeVars  == <<alphaMapCache, wk, reads, sets>>

----------------------------------------------------------------------------
(* Codec run                                                               *)

InitCodec ==
    /\ \E in \in BadSignatureInputs
               \cup {ChunkInput(cs, c) : cs \in ChunkSeqs, c \in 0..MaxCut}
               \cup UNION {{EncodedInput(w, h, d) : d \in PixelBuffers(w, h)} \cup
                           {FilteredInput(w, h, d, fs) :
                                d \in PixelBuffers(w, h), fs \in [1..h -> 0..4]} :
                           w \in 1..MaxW, h \in 1..MaxH} :
           buffer = in.buffer /\ origin = in.origin
    /\ cpc = "input" /\ dec = NotDecoded
    /\ GeomIdle /\ BlendIdle /\ PipeIdle

\* decodePNG(buffer)
Decode ==
    /\ cpc = "input"
    /\ dec' = decodePNG(buffer)
    /\ cpc' = "decoded"
    /\ UNCHANGED <<buffer, origin, geomVars, blendVars, pipeVars>>

\* encodePNG of the image just decoded, handed to decodePNG again
Reencode ==
    /\ cpc = "decoded" /\ dec.status = "ok" /\ origin.kind # "reencoded"
    /\ buffer' = encodePNG(dec.width, dec.height, dec.data)
    /\ origin' = Origin("reencoded", dec.width, dec.height, dec.data, << >>, 0, << >>)
    /\ cpc' = "input" /\ dec' = NotDecoded
    /\ UNCHANGED <<geomVars, blendVars, pipeVars>>

NextCodec == Decode \/ Reencode

SpecCodec == InitCodec /\ [][NextCodec]_vars

----------------------------------------------------------------------------
(* Geometry run                                                            *)

GeoSpan == 2    \* dimensions taken this far around each threshold

DimSamples ==
    {0, 1, 40, 100, 600, 800, 2000}
        \cup ((48 - GeoSpan)..(48 + GeoSpan))
        \cup ((80 - GeoSpan)..(80 + GeoSpan))
        \cup ((160 - GeoSpan)..(160 + GeoSpan))
        \cup ((SIZE_LIMIT - GeoSpan)..(SIZE_LIMIT + GeoSpan))

InitGeom ==
    /\ dimW \in DimSamples /\ dimH \in DimSamples
    /\ gpc = "input" /\ geo = [has |-> FALSE]
    /\ CodecIdle /\ BlendIdle /\ PipeIdle

Evaluate ==
    /\ gpc = "input"
    /\ geo' = [config |-> detectWatermarkConfig(dimW, dimH),
               position |-> calculateWatermarkPosition(dimW, dimH,
                                detectWatermarkConfig(dimW, dimH)),
               has |-> hasWatermarkArea(dimW, dimH)]
    /\ gpc' = "evaluated"
    /\ UNCHANGED <<dimW, dimH, codecVars, blendVars, pipeVars>>

NextGeom == Evaluate

SpecGeom == InitGeom /\ [][NextGeom]_vars

----------------------------------------------------------------------------
(* Inversion run: applyReverseAlphaBlending on a decoded image, as          *)
(* removeWatermark calls it (lines 325-329)                                 *)

MaxBlendSeed == 1

\* alpha maps of a 48x48 logo: no logo at all, a uniform one, and one with
\* transparent and opaque parts
MaskPattern(m) ==
    [i \in 1..(48 * 48) |->
        IF m = 0 THEN 0
        ELSE IF m = 1 THEN 128
        ELSE IF i % 3 = 0 THEN 0 ELSE (i * 7) % 256] \o << >>

\* <<width, height>> of the decoded images: smaller than the watermark
\* area, exactly it, and larger
BlendSizes ==
    {<<1, 1>>, <<2, 1>>, <<2, 20>>, <<8, 40>>, <<40, 8>>, <<20, 79>>, <<50, 50>>,
     <<80, 80>>, <<81, 82>>}

BlendInput(wh, seed) ==
    [width |-> wh[1], height |-> wh[2],
     data |-> Pattern(seed, wh[1] * wh[2] * 4) \o << >>]

InitBlend ==
    /\ \E wh \in BlendSizes, seed \in 0..MaxBlendSeed : img = BlendInput(wh, seed)
    /\ \E m \in 0..2 : mask = MaskPattern(m)
    /\ bpc = "input" /\ out = << >>
    /\ CodecIdle /\ GeomIdle /\ PipeIdle

Blend ==
    /\ bpc = "input"
    /\ LET config == detectWatermarkConfig(img.width, img.height)
           position == calculateWatermarkPosition(img.width, img.height, config)
       IN  out' = applyReverseAlphaBlending(img.data, img.width, mask, position)
    /\ bpc' = "blended"
    /\ UNCHANGED <<img, mask, codecVars, geomVars, pipeVars>>

NextBlend == Blend

SpecBlend == InitBlend /\ [][NextBlend]_vars

----------------------------------------------------------------------------
(* removeWatermark and getAlphaMap, invoked concurrently.  An invocation    *)
(* runs to its next await in one step; the steps of different invocations   *)
(* interleave.                                                              *)

\* buffers handed to removeWatermark: a PNG image, the same with a wrong
\* byte in the first and in the second signature word, and its first 6 bytes
PipeInputs ==
    {WholePNG,
     [WholePNG EXCEPT ![2] = 81],
     [WholePNG EXCEPT ![6] = 11],
     SubSeq(WholePNG, 1, 6)}

\* invocation w is the next one to be called
NextCall(w) == wk[w].pc = "idle" /\ \A v \in Workers : v < w => wk[v].pc # "idle"

\* alphaMapCache.set(size, alphaMap)
CacheSet(cache, size, alphaMap) ==
    [s \in (DOMAIN cache) \cup {size} |-> IF s = size THEN alphaMap ELSE cache[s]]

\* getAlphaMap up to its await (lines 282-286), for invocation w
EnterGetAlphaMap(worker, size) ==
    IF size \in DOMAIN alphaMapCache
    THEN [worker EXCEPT !.size = size, !.alphaMap = alphaMapCache[size],
                        !.pc = IF worker.call = "getAlphaMap" THEN "returned"
                               ELSE "awaitMap"]
    ELSE [worker EXCEPT !.size = size, !.pc = "awaitRead", !.myReads = @ + 1]

\* removeWatermark(input) up to its await (lines 323-327)
CallRemoveWatermark(w, input) ==
    /\ NextCall(w)
    /\ LET d == decodePNG(input)
           started == [wk[w] EXCEPT !.call = "removeWatermark", !.input = input,
                                    !.walked = Len(d.visited)]
       IN  IF d.status = "error"
           THEN wk' = [wk EXCEPT ![w] = [started EXCEPT !.pc = "failed",
                                                         !.error = d.error]]
           ELSE LET config == detectWatermarkConfig(d.width, d.height)
                    position == calculateWatermarkPosition(d.width, d.height, config)
                IN  wk' = [wk EXCEPT ![w] =
                             EnterGetAlphaMap(
                                 [started EXCEPT !.width = d.width,
                                                 !.height = d.height,
                                                 !.data = d.data,
                                                 !.position = position],
                                 config.logoSize)]
    /\ UNCHANGED <<alphaMapCache, reads, sets, codecVars, geomVars, blendVars>>

\* getAlphaMap(size) as removeWatermark calls it for an image larger than
\* 1024 x 1024 (size 96; the buffers above all decode to the 48 tier),
\* without that image's pixels
CallGetAlphaMap(w, size) ==
    /\ NextCall(w)
    /\ wk' = [wk EXCEPT ![w] = EnterGetAlphaMap([wk[w] EXCEPT !.call = "getAlphaMap"],
                                                size)]
    /\ UNCHANGED <<alphaMapCache, reads, sets, codecVars, geomVars, blendVars>>

\* readFile resolves: lines 287-291
ReadDone(w) ==
    /\ wk[w].pc = "awaitRead"
    /\ LET loaded == LoadAlphaMap(readFile(wk[w].size))
       IN  IF loaded.status = "error"
           THEN /\ wk' = [wk EXCEPT ![w].pc = "failed", ![w].error = loaded.error]
                /\ UNCHANGED <<alphaMapCache, sets>>
           ELSE /\ alphaMapCache' = CacheSet(alphaMapCache, wk[w].size, loaded.alphaMap)
                /\ sets' = [sets EXCEPT ![wk[w].size] = @ + 1]
                /\ wk' = [wk EXCEPT ![w].alphaMap = loaded.alphaMap,
                                    ![w].mySets = @ + 1,
                                    ![w].pc = IF wk[w].call = "getAlphaMap"
                                              THEN "returned" ELSE "awaitMap"]
    /\ reads' = [reads EXCEPT ![wk[w].size] = @ + 1]
    /\ UNCHANGED <<codecVars, geomVars, blendVars>>

\* readFile rejects: getAlphaMap and removeWatermark reject with it
ReadFail(w) ==
    /\ wk[w].pc = "awaitRead"
    /\ wk' = [wk EXCEPT ![w].pc = "failed", ![w].error = "readFile"]
    /\ UNCHANGED <<alphaMapCache, reads, sets, codecVars, geomVars, blendVars>>

\* removeWatermark after its await: lines 329-331
Resume(w) ==
    /\ wk[w].pc = "awaitMap"
    /\ LET data == applyReverseAlphaBlending(wk[w].data, wk[w].width,
                                             wk[w].alphaMap, wk[w].position)
       IN  wk' = [wk EXCEPT ![w].data = data,
                            ![w].output = encodePNG(wk[w].width, wk[w].height, data),
                            ![w].pc = "returned"]
    /\ UNCHANGED <<alphaMapCache, reads, sets, codecVars, geomVars, blendVars>>

Init ==
    /\ PipeIdle /\ CodecIdle /\ GeomIdle /\ BlendIdle

Next ==
    \E w \in Workers :
        \/ \E input \in PipeInputs : CallRemoveWatermark(w, input)
        \/ CallGetAlphaMap(w, 96)
        \/ ReadDone(w)
        \/ ReadFail(w)
        \/ Resume(w)

Spec == Init /\ [][Next]_vars

----------------------------------------------------------------------------
(* Properties of the geometry run                                          *)

\* C6: detectWatermarkConfig(w, h) is {96, 64, 64} exactly when w > 1024 and
\* h > 1024, and {48, 32, 32} for every other pair; (1025,1025) gives 96 and
\* (1024,1024) gives 48; no other configuration is returned.
C6_ConfigTiers ==
    gpc = "evaluated" =>
        /\ (dimW > 1024 /\ dimH > 1024) <=>
               geo.config = [logoSize |-> 96, marginRight |-> 64, marginBottom |-> 64]
        /\ ~(dimW > 1024 /\ dimH > 1024) <=>
               geo.config = [logoSize |-> 48, marginRight |-> 32, marginBottom |-> 32]
        /\ (dimW = 1025 /\ dimH = 1025) => geo.config.logoSize = 96
        /\ (dimW = 1024 /\ dimH = 1024) => geo.config.logoSize = 48

C6_Witness ==
    gpc = "evaluated" /\ dimW = 1024 /\ dimH = 1025 /\ geo.config.logoSize = 48

\* C7: hasWatermarkArea(w, h) is true iff w >= logoSize + marginRight and
\* h >= logoSize + marginBottom for the tier of (w, h) (80 in the 48 tier, 160
\* in the 96 tier); equivalently iff the box of calculateWatermarkPosition has
\* x >= 0, y >= 0 and lies inside the w-by-h image.
C7_HasWatermarkArea ==
    gpc = "evaluated" =>
        LET need == IF dimW > 1024 /\ dimH > 1024 THEN 160 ELSE 80
            box  == geo.position
        IN  /\ geo.has <=> (dimW >= need /\ dimH >= need)
            /\ geo.has <=> (/\ dimW >= geo.config.logoSize + geo.config.marginRight
                            /\ dimH >= geo.config.logoSize + geo.config.marginBottom)
            /\ geo.has <=> (/\ box.x >= 0 /\ box.y >= 0
                            /\ box.x + box.width <= dimW
                            /\ box.y + box.height <= dimH)
            /\ (dimW = 40 /\ dimH = 40) => ~geo.has
            /\ (dimW = 100 /\ dimH = 100) => geo.has

C7_Witness ==
    gpc = "evaluated" /\ dimW = 80 /\ dimH = 80 /\ geo.has
        /\ geo.position.x = 0 /\ geo.position.y = 0

----------------------------------------------------------------------------
(* Properties of the codec run                                             *)

\* the chunks the walk reads: up to and including the first IEND
WalkedCount(chunks) ==
    IF \E k \in 1..Len(chunks) : chunks[k] = "IEND"
    THEN CHOOSE k \in 1..Len(chunks) :
             chunks[k] = "IEND" /\ \A j \in 1..(k - 1) : chunks[j] # "IEND"
    ELSE Len(chunks)

\* where chunk k of a buffer made of whole chunks starts
ChunkStart(chunks, k) == 8 + Len(ChunksBytes(SubSeq(chunks, 1, k - 1)))

\* the payloads of the IDAT chunks among the first n chunks, in file order
IDATPayloads(chunks, n) ==
    Concat([k \in 1..n |-> IF chunks[k] \in {"IDAT1", "IDAT2"}
                           THEN ChunkData(chunks[k]) ELSE << >>])

\* no IHDR chunk precedes the first IDAT chunk, or there is no IHDR at all
NoIHDRBeforeIDAT(chunks) ==
    \/ \A k \in 1..Len(chunks) : chunks[k] # "IHDR"
    \/ \E k \in 1..Len(chunks) :
           /\ chunks[k] \in {"IDAT1", "IDAT2"}
           /\ \A j \in 1..(k - 1) : chunks[j] # "IHDR"

\* the buffer ends inside its last chunk (header, data or CRC) and holds no
\* IEND chunk
Truncated(o) ==
    /\ o.chunks # << >>
    /\ o.cut > 0
    /\ o.cut < Len(ChunkOf[o.chunks[Len(o.chunks)]])
    /\ \A k \in 1..Len(o.chunks) : o.chunks[k] # "IEND"

\* C1: decodePNG fails (returns no image) for every input with a valid
\* signature in which no IHDR chunk precedes the first IDAT chunk, inputs
\* without any IHDR chunk included.
C1_MissingIHDRFails ==
    (cpc = "decoded" /\ origin.kind = "chunks" /\ origin.cut = 0
        /\ NoIHDRBeforeIDAT(origin.chunks)) => dec.status = "error"

\* C3: decodePNG fails and returns no image whenever the buffer ends inside
\* a chunk header, a chunk's declared data or its CRC before an IEND chunk
\* is reached.
C3_TruncatedFails ==
    (cpc = "decoded" /\ origin.kind = "chunks" /\ Truncated(origin))
        => dec.status = "error"

\* C8: decodePNG(encodePNG(width, height, data)) returns width, height and
\* data unchanged, for a pixel buffer and for the image decoded from a valid
\* PNG file (decode(encode(decode(x))) = decode(x)).
C8_RoundTrip ==
    (cpc = "decoded" /\ origin.kind \in {"encoded", "reencoded"}) =>
        /\ dec.status = "ok"
        /\ dec.width = origin.width
        /\ dec.height = origin.height
        /\ dec.data = origin.data

C8_Witness ==
    /\ cpc = "decoded" /\ origin.kind = "reencoded"
    /\ origin.width = 2 /\ origin.height = 2
    /\ Len(origin.data) = 16 /\ origin.data[5] # origin.data[1]
    /\ dec.data = origin.data

\* C9: an 8-bit RGBA image whose scanlines were filtered by the standard
\* forward filter, each with any of the types 0..4, is decoded to exactly
\* the original pixels (neighbours already reconstructed, missing ones 0,
\* mod 256, Paeth ties toward left, then up, then up-left).
C9_FilterCorrect ==
    (cpc = "decoded" /\ origin.kind = "filtered") =>
        /\ dec.status = "ok"
        /\ dec.width = origin.width
        /\ dec.height = origin.height
        /\ dec.data = origin.data

C9_Witness ==
    /\ cpc = "decoded" /\ origin.kind = "filtered"
    /\ origin.width = 2 /\ origin.height = 2
    /\ origin.data = TiePattern(16)
    /\ origin.filters = <<3, 4>>
    /\ dec.data = origin.data

\* C10: for every chunk sequence after a valid signature the walk ends, the
\* buffer handed to inflate is the concatenation in file order of the
\* payloads of the IDAT chunks before the first IEND, chunks of other types
\* are stepped over by their length, and no chunk after the first IEND is
\* read.
C10_ChunkWalk ==
    /\ cpc = "decoded" =>
           \A k \in 1..(Len(dec.visited) - 1) : dec.visited[k] < dec.visited[k + 1]
    /\ (cpc = "decoded" /\ origin.kind = "chunks" /\ origin.cut = 0) =>
           LET n == WalkedCount(origin.chunks)
           IN  /\ dec.inflateCalled
               /\ dec.compressedData = IDATPayloads(origin.chunks, n)
               /\ dec.visited = [k \in 1..n |-> ChunkStart(origin.chunks, k)]
               /\ dec.sawIEND <=> (\E k \in 1..Len(origin.chunks) :
                                       origin.chunks[k] = "IEND")

C10_Witness ==
    /\ cpc = "decoded" /\ origin.kind = "chunks" /\ origin.cut = 0
    /\ origin.chunks = <<"tEXt", "IDAT1", "IEND", "IDAT2">>
    /\ dec.compressedData = ChunkData("IDAT1")
    /\ Len(dec.visited) = 3

----------------------------------------------------------------------------
(* Property of the inversion run                                           *)

\* byte i (from 1) of the image may be changed by the inversion: an R, G or
\* B byte of a pixel inside the watermark box whose mask alpha is at least
\* 0.002 (a mask value of at least 1)
MayChange(i) ==
    LET config == detectWatermarkConfig(img.width, img.height)
        box == calculateWatermarkPosition(img.width, img.height, config)
        p   == (i - 1) \div 4
        px  == p % img.width
        py  == p \div img.width
    IN  /\ (i - 1) % 4 # 3
        /\ px >= box.x /\ px < box.x + box.width
        /\ py >= box.y /\ py < box.y + box.height
        /\ mask[(py - box.y) * box.width + (px - box.x) + 1] >= 1

\* C5: for a decoded image of any width and height the inversion changes
\* only R, G, B bytes of pixels inside the watermark box whose mask alpha is
\* at least 0.002; every other byte is as decoded.
C5_FrameEffect ==
    bpc = "blended" =>
        /\ Len(out) = Len(img.data)
        /\ \A i \in 1..Len(img.data) : out[i] # img.data[i] => MayChange(i)

----------------------------------------------------------------------------
(* Properties of the concurrent run                                        *)

\* the first 8 bytes of the buffer are not the PNG signature
NotPNG(input) ==
    Len(input) < 8 \/ SubSeq(input, 1, 8) # <<137, 80, 78, 71, 13, 10, 26, 10>>

\* C2: removeWatermark on a buffer whose first 8 bytes are not the PNG
\* signature fails before any chunk is walked, returns no output bytes,
\* never reads the mask asset and leaves the alpha-mask cache as it was.
C2_BadSignatureFailsFast ==
    \A w \in Workers :
        (wk[w].call = "removeWatermark" /\ NotPNG(wk[w].input)) =>
            /\ wk[w].pc = "failed"
            /\ wk[w].error \in {"Invalid PNG signature", "RangeError"}
            /\ wk[w].walked = 0
            /\ wk[w].output = << >>
            /\ wk[w].myReads = 0
            /\ wk[w].mySets = 0

C2_Witness ==
    \E w \in Workers :
        /\ wk[w].call = "removeWatermark" /\ NotPNG(wk[w].input)
        /\ wk[w].input[6] = 11
        /\ wk[w].pc = "failed"
        /\ 96 \in DOMAIN alphaMapCache

\* C4: under any interleaving the mask of each logo size is populated at
\* most once: its asset is read and decoded at most once and its cache entry
\* is written at most once.
C4_PopulatedOnce ==
    \A s \in {48, 96} : reads[s] <= 1 /\ sets[s] <= 1

====
